---- MODULE Spec2Model ----
(***************************************************************************)
(* Similarity Forest (simforest/simforest.py): the estimators of the       *)
(* module as a state machine.  The state is the attribute dictionary of    *)
(* every estimator instance, the class-level node list of                  *)
(* SimilarityTreeRegressor, and the outcome of the last call.  fitDone is  *)
(* a history variable: the instances on which a fit has returned normally. *)
(***************************************************************************)
EXTENDS Integers, Sequences, FiniteSets, TLC

VARIABLES tree, nodes_list, clf, forest, fitDone, ret,
          inFit,
          cX, cmax_depth, cnodes, cstack, links_, next_id

\* the clustering estimator's state
cvars == <<cX, cmax_depth, cnodes, cstack, links_, next_id>>

vars == <<tree, nodes_list, clf, forest, fitDone, ret, inFit, cvars>>

(***************************************************************************)
(* Bounds and encodings                                                    *)
(***************************************************************************)
\* fit calls on tree regressors explored (the class-level list is unbounded)
MaxFits == 2

\* Python None, for max_depth, child links, _p, _q and _value
None == 0

\* a non-finite array entry (nan or inf), rejected by check_array
NonFinite == 99

\* -np.inf, the initial _split_point
NegInf == -1000

\* min_samples_split, default of the forest's constructor
MinSamplesSplit == 2

TreeIds == {1, 2}
ClfIds == {1}
ForestIds == {1, 2}

RandomStates == {1}
MaxDepths == {None, 2}
\* <<max_depth, depth>> of a tree regressor: unset, below, at and above max_depth
TreeParams == {<<None, 1>>, <<2, 1>>, <<2, 2>>, <<2, 3>>}
NEstimators == {1, 2}

\* Scenario A of the specification: two well separated classes
ScenarioA == [X |-> << <<0, 0>>, <<0, 1>>, <<5, 5>>, <<5, 6>> >>, y |-> <<0, 0, 1, 1>>]
\* a label set that does not contain the label 1
TwoPoints == [X |-> << <<1, 2>>, <<3, 4>> >>, y |-> <<0, 2>>]
\* X and y of different lengths
Mismatched == [X |-> << <<1, 2>>, <<3, 4>> >>, y |-> <<0>>]
\* a non-finite entry in X
NotFinite == [X |-> << <<1, NonFinite>> >>, y |-> <<1>>]

\* duplicate points with different targets
Duplicates == [X |-> << <<1, 1>>, <<1, 1>> >>, y |-> <<0, 1>>]

Datasets == {ScenarioA, TwoPoints, Mismatched, NotFinite}
Inputs == {ScenarioA.X, NotFinite.X}

NoData == [X |-> <<>>, y |-> <<>>]

(***************************************************************************)
(* sklearn.utils.validation, as the module calls it                        *)
(***************************************************************************)
Range(s) == {s[i] : i \in DOMAIN s}

\* check_array(X): a non-empty 2D array containing only finite values
check_array(X) ==
    /\ Len(X) > 0
    /\ \A i \in DOMAIN X : Len(X[i]) > 0 /\ Len(X[i]) = Len(X[1])
    /\ \A i \in DOMAIN X : \A j \in DOMAIN X[i] : X[i][j] # NonFinite

\* check_X_y(X, y): check_array(X), y finite, consistent lengths
check_X_y(X, y) ==
    /\ check_array(X)
    /\ \A i \in DOMAIN y : y[i] # NonFinite
    /\ Len(X) = Len(y)

\* check_is_fitted(self, attributes): every attribute exists on the instance
check_is_fitted(self, attributes) == attributes \subseteq self.attrs

\* unique_labels(y): the sorted distinct labels
RECURSIVE SortedSeq(_)
SortedSeq(S) ==
    IF S = {} THEN <<>>
    ELSE LET m == CHOOSE x \in S : \A z \in S : x <= z
         IN <<m>> \o SortedSeq(S \ {m})

unique_labels(y) == SortedSeq(Range(y))

\* np.ones(n)
RECURSIVE ones(_)
ones(n) == IF n = 0 THEN <<>> ELSE Append(ones(n - 1), 1)

\* sim_function, default np.dot
RECURSIVE dot(_, _)
dot(x, y) ==
    IF x = <<>> \/ y = <<>> THEN 0
    ELSE Head(x) * Head(y) + dot(Tail(x), Tail(y))

\* the projection of x on the direction (p, q)
Projection(x, p, q) == dot(x, q) - dot(x, p)

\* the indices 0..n-1 of a training set of n samples
Indices(n) == 0..(n - 1)

(***************************************************************************)
(* Outcome of the last call                                                *)
(***************************************************************************)
Call(op, kind, obj, data, check_input, outcome, shape, vec) ==
    [op |-> op, kind |-> kind, obj |-> obj, data |-> data,
     check_input |-> check_input, outcome |-> outcome,
     shape |-> shape, vec |-> vec]

\* a call that raised: no value
Raised(op, kind, obj, data, check_input, error) ==
    Call(op, kind, obj, data, check_input, error, <<>>, <<>>)

\* a call that returned None or self: no array value
Returned(op, kind, obj, data, check_input, what) ==
    Call(op, kind, obj, data, check_input, what, <<>>, <<>>)

(***************************************************************************)
(* SimilarityTreeRegressor                                                 *)
(***************************************************************************)
FittedAttrs == {"X_", "y_", "is_fitted_"}

SimilarityTreeRegressor(random_state, n_directions, max_depth, depth) ==
    [random_state |-> random_state, n_directions |-> n_directions,
     max_depth |-> max_depth, depth |-> depth,
     attrs |-> {},
     X_ |-> <<>>, y_ |-> <<>>, lhs |-> None, rhs |-> None,
     p |-> None, q |-> None, similarities |-> <<>>,
     split_point |-> NegInf, value |-> None,
     is_leaf |-> FALSE, is_fitted_ |-> FALSE, node_id |-> None]

\* the attributes fit assigns before registering the node
TreeFitAttrs ==
    {"X_", "y_", "_lhs", "_rhs", "_p", "_q", "_similarities",
     "_split_point", "_value", "_is_leaf", "is_fitted_"}

\* a fit that keeps the learned parameters only and drops the training data
TreeFitAssignDiscard(self, X, y) ==
    [self EXCEPT !.attrs = (@ \cup TreeFitAttrs) \ {"X_", "y_"},
                 !.X_ = <<>>, !.y_ = <<>>, !.lhs = None, !.rhs = None,
                 !.p = None, !.q = None, !.similarities = <<>>,
                 !.split_point = NegInf, !.value = None,
                 !.is_leaf = FALSE, !.is_fitted_ = FALSE]

TreeFitAssign(self, X, y) ==
    [self EXCEPT !.attrs = @ \cup TreeFitAttrs,
                 !.X_ = X, !.y_ = y, !.lhs = None, !.rhs = None,
                 !.p = None, !.q = None, !.similarities = <<>>,
                 !.split_point = NegInf, !.value = None,
                 !.is_leaf = FALSE, !.is_fitted_ = FALSE]

\* the node id taken from the length of the list before the append
TreeFitRegisterBefore(self, list) ==
    [self EXCEPT !.attrs = @ \cup {"_node_id"}, !.node_id = Len(list) - 1]

\* the node id is the length of the class-level list after the append
TreeFitRegister(self, list) ==
    [self EXCEPT !.attrs = @ \cup {"_node_id"}, !.node_id = Len(list)]

\* depth == max_depth makes the node a leaf and returns before is_fitted_ = True
TreeFitFinish(self) ==
    IF self.max_depth # None /\ self.depth = self.max_depth
    THEN [self EXCEPT !.is_leaf = TRUE]
    ELSE [self EXCEPT !.is_fitted_ = TRUE]

\* a fit that validates only after it has stored the data and registered the node
TreeFitLateCheck(t, d, check_input) ==
    LET list == Append(nodes_list, t)
    IN /\ Len(nodes_list) < MaxFits
       /\ nodes_list' = list
       /\ UNCHANGED <<clf, forest, inFit, cvars>>
       /\ IF check_input /\ ~check_X_y(d.X, d.y)
          THEN /\ tree' = [tree EXCEPT ![t] =
                       TreeFitRegister(TreeFitAssign(tree[t], d.X, d.y), list)]
               /\ UNCHANGED fitDone
               /\ ret' = Raised("fit", "treeR", t, d, check_input, "ValueError")
          ELSE /\ tree' = [tree EXCEPT ![t] =
                       TreeFitFinish(TreeFitRegister(TreeFitAssign(tree[t], d.X, d.y), list))]
               /\ fitDone' = fitDone \cup {<<"treeR", t>>}
               /\ ret' = Returned("fit", "treeR", t, d, check_input, "self")

TreeFit(t, d, check_input) ==
    IF check_input /\ ~check_X_y(d.X, d.y)
    THEN /\ ret' = Raised("fit", "treeR", t, d, check_input, "ValueError")
         /\ UNCHANGED <<tree, nodes_list, clf, forest, fitDone, inFit, cvars>>
    ELSE LET list == Append(nodes_list, t)
         IN /\ Len(nodes_list) < MaxFits
            /\ nodes_list' = list
            /\ tree' = [tree EXCEPT ![t] =
                    TreeFitFinish(TreeFitRegister(TreeFitAssign(tree[t], d.X, d.y), list))]
            /\ fitDone' = fitDone \cup {<<"treeR", t>>}
            /\ ret' = Returned("fit", "treeR", t, d, check_input, "self")
            /\ UNCHANGED <<clf, forest, inFit, cvars>>

TreePredict(t, X, check_input) ==
    /\ UNCHANGED <<tree, nodes_list, clf, forest, fitDone, inFit, cvars>>
    /\ ret' =
         IF check_input /\ ~check_is_fitted(tree[t], FittedAttrs)
         THEN Raised("predict", "treeR", t, [X |-> X, y |-> <<>>], check_input, "NotFittedError")
         ELSE IF check_input /\ ~check_array(X)
         THEN Raised("predict", "treeR", t, [X |-> X, y |-> <<>>], check_input, "ValueError")
         ELSE Returned("predict", "treeR", t, [X |-> X, y |-> <<>>], check_input, "None")

\* fit run by a worker thread, first part: validation, the attribute
\* assignments and the append to the class-level list
WorkerStart(t, d, check_input) ==
    /\ \A b \in BOOLEAN : <<t, b>> \notin inFit
    /\ IF check_input /\ ~check_X_y(d.X, d.y)
       THEN /\ ret' = Raised("fit", "treeR", t, d, check_input, "ValueError")
            /\ UNCHANGED <<tree, nodes_list, clf, forest, fitDone, inFit, cvars>>
       ELSE /\ Len(nodes_list) < MaxFits
            /\ nodes_list' = Append(nodes_list, t)
            /\ tree' = [tree EXCEPT ![t] = TreeFitAssign(tree[t], d.X, d.y)]
            /\ inFit' = inFit \cup {<<t, check_input>>}
            /\ ret' = Returned("fit", "treeR", t, d, check_input, "running")
            /\ UNCHANGED <<clf, forest, fitDone, cvars>>

\* the induction starts over on the same samples instead of returning
WorkerFinishAgain(t, check_input) ==
    /\ <<t, check_input>> \in inFit
    /\ tree' = [tree EXCEPT ![t] = TreeFitRegister(TreeFitAssign(tree[t], tree[t].X_, tree[t].y_),
                                                   nodes_list)]
    /\ ret' = Returned("fit", "treeR", t, [X |-> tree[t].X_, y |-> tree[t].y_],
                       check_input, "running")
    /\ UNCHANGED <<nodes_list, clf, forest, fitDone, inFit, cvars>>

\* fit run by a worker thread, second part: the node id is read from the
\* length of the class-level list, then the leaf test and the return
WorkerFinish(t, check_input) ==
    /\ <<t, check_input>> \in inFit
    /\ tree' = [tree EXCEPT ![t] = TreeFitFinish(TreeFitRegister(tree[t], nodes_list))]
    /\ inFit' = inFit \ {<<t, check_input>>}
    /\ fitDone' = fitDone \cup {<<"treeR", t>>}
    /\ ret' = Returned("fit", "treeR", t, [X |-> tree[t].X_, y |-> tree[t].y_],
                       check_input, "self")
    /\ UNCHANGED <<nodes_list, clf, forest, cvars>>

\* get_depth: 1 for a node without children, else 1 + the deeper child
RECURSIVE get_depth(_, _)
get_depth(trees, t) ==
    IF trees[t].lhs = None /\ trees[t].rhs = None THEN 1
    ELSE LET l_depth == get_depth(trees, trees[t].lhs)
             r_depth == get_depth(trees, trees[t].rhs)
         IN IF l_depth > r_depth THEN l_depth + 1 ELSE r_depth + 1

TreeGetDepth(t) ==
    /\ UNCHANGED <<tree, nodes_list, clf, forest, fitDone, inFit, cvars>>
    /\ ret' =
         IF ~check_is_fitted(tree[t], FittedAttrs)
         THEN Raised("get_depth", "treeR", t, NoData, TRUE, "NotFittedError")
         ELSE Call("get_depth", "treeR", t, NoData, TRUE, "int", <<>>, <<get_depth(tree, t)>>)

\* get_n_leaves: no fitted check; reads self._lhs and self._rhs directly
RECURSIVE get_n_leaves(_, _)
get_n_leaves(trees, t) ==
    IF trees[t].lhs = None /\ trees[t].rhs = None THEN 1
    ELSE get_n_leaves(trees, trees[t].lhs) + get_n_leaves(trees, trees[t].rhs)

TreeGetNLeaves(t) ==
    /\ UNCHANGED <<tree, nodes_list, clf, forest, fitDone, inFit, cvars>>
    /\ ret' =
         IF ~({"_lhs", "_rhs"} \subseteq tree[t].attrs)
         THEN Raised("get_n_leaves", "treeR", t, NoData, TRUE, "AttributeError")
         ELSE Call("get_n_leaves", "treeR", t, NoData, TRUE, "int", <<>>, <<get_n_leaves(tree, t)>>)

(***************************************************************************)
(* SimilarityTreeClassifier                                                *)
(***************************************************************************)
SimilarityTreeClassifier ==
    [attrs |-> {}, classes_ |-> <<>>, X_ |-> <<>>, y_ |-> <<>>, is_fitted_ |-> FALSE]

ClfFitAssign(self, X, y) ==
    [self EXCEPT !.attrs = @ \cup {"classes_", "X_", "y_", "is_fitted_"},
                 !.classes_ = unique_labels(y),
                 !.X_ = X, !.y_ = y, !.is_fitted_ = TRUE]

\* fit has no check_input parameter: check_X_y always runs first
ClfFit(c, d) ==
    IF ~check_X_y(d.X, d.y)
    THEN /\ ret' = Raised("fit", "clf", c, d, TRUE, "ValueError")
         /\ UNCHANGED <<tree, nodes_list, clf, forest, fitDone, inFit, cvars>>
    ELSE /\ clf' = [clf EXCEPT ![c] = ClfFitAssign(clf[c], d.X, d.y)]
         /\ fitDone' = fitDone \cup {<<"clf", c>>}
         /\ ret' = Returned("fit", "clf", c, d, TRUE, "self")
         /\ UNCHANGED <<tree, nodes_list, forest, inFit, cvars>>

\* predict ignores check_input; the answer is np.ones(X.shape[0])
ClfPredict(c, X, check_input) ==
    /\ UNCHANGED <<tree, nodes_list, clf, forest, fitDone, inFit, cvars>>
    /\ ret' =
         IF ~check_is_fitted(clf[c], {"is_fitted_"})
         THEN Raised("predict", "clf", c, [X |-> X, y |-> <<>>], check_input, "NotFittedError")
         ELSE IF ~check_array(X)
         THEN Raised("predict", "clf", c, [X |-> X, y |-> <<>>], check_input, "ValueError")
         ELSE Call("predict", "clf", c, [X |-> X, y |-> <<>>], check_input, "array",
                   <<Len(X)>>, ones(Len(X)))

\* predict_proba: the same one-dimensional array of ones
ClfPredictProba(c, X, check_input) ==
    /\ UNCHANGED <<tree, nodes_list, clf, forest, fitDone, inFit, cvars>>
    /\ ret' =
         IF ~check_is_fitted(clf[c], {"is_fitted_"})
         THEN Raised("predict_proba", "clf", c, [X |-> X, y |-> <<>>], check_input, "NotFittedError")
         ELSE IF ~check_array(X)
         THEN Raised("predict_proba", "clf", c, [X |-> X, y |-> <<>>], check_input, "ValueError")
         ELSE Call("predict_proba", "clf", c, [X |-> X, y |-> <<>>], check_input, "array",
                   <<Len(X)>>, ones(Len(X)))

\* get_depth is a stub (pass): it returns None, fitted or not
ClfGetDepth(c) ==
    /\ UNCHANGED <<tree, nodes_list, clf, forest, fitDone, inFit, cvars>>
    /\ ret' = Returned("get_depth", "clf", c, NoData, TRUE, "None")

(***************************************************************************)
(* SimilarityForestRegressor                                               *)
(***************************************************************************)
SimilarityForestRegressor(random_state, n_estimators, n_directions, max_depth, oob_score) ==
    [random_state |-> random_state, n_estimators |-> n_estimators,
     n_directions |-> n_directions, max_depth |-> max_depth,
     oob_score |-> oob_score,
     attrs |-> {}, estimators_ |-> <<>>, X_ |-> <<>>, y_ |-> <<>>,
     oob_score_ |-> None, oob_prediction_ |-> <<>>]

\* fit validates the input and returns self; it assigns no attribute
ForestFit(f, d, check_input) ==
    IF check_input /\ ~check_X_y(d.X, d.y)
    THEN /\ ret' = Raised("fit", "forestR", f, d, check_input, "ValueError")
         /\ UNCHANGED <<tree, nodes_list, clf, forest, fitDone, inFit, cvars>>
    ELSE /\ fitDone' = fitDone \cup {<<"forestR", f>>}
         /\ ret' = Returned("fit", "forestR", f, d, check_input, "self")
         /\ UNCHANGED <<tree, nodes_list, clf, forest, inFit, cvars>>

ForestPredict(f, X, check_input) ==
    /\ UNCHANGED <<tree, nodes_list, clf, forest, fitDone, inFit, cvars>>
    /\ ret' =
         IF check_input /\ ~check_is_fitted(forest[f], FittedAttrs)
         THEN Raised("predict", "forestR", f, [X |-> X, y |-> <<>>], check_input, "NotFittedError")
         ELSE IF check_input /\ ~check_array(X)
         THEN Raised("predict", "forestR", f, [X |-> X, y |-> <<>>], check_input, "ValueError")
         ELSE Returned("predict", "forestR", f, [X |-> X, y |-> <<>>], check_input, "None")

(***************************************************************************)
(* SimilarityForestCluster: divisive clustering that records its splits    *)
(***************************************************************************)
\* no cluster id
NoId == -1

\* the inputs of the clustering fit; the last one holds a duplicate point
ClusterInputs ==
    { <<<<0, 0>>, <<0, 1>>, <<5, 5>>>>,
      ScenarioA.X,
      <<<<1, 1>>, <<1, 1>>, <<2, 3>>>> }

ClusterMaxDepths == {None, 1, 2, 3}

\* a node of the tree under construction over the sample indices S
ClusterNode(S, depth, parent) ==
    [S |-> S, depth |-> depth, parent |-> parent, state |-> "pending",
     id |-> None, p |-> None, q |-> None, split_point2 |-> 0,
     lhs |-> None, rhs |-> None]

\* proj_i = sim(x_i, q) - sim(x_i, p) for the sample indices p, q, i
Proj(X, i, p, q) == Projection(X[i + 1], X[p + 1], X[q + 1])

\* twice the candidate thresholds: the midpoints between consecutive
\* distinct projections of the samples of S
Thresholds2(X, S, p, q) ==
    LET vals == {Proj(X, i, p, q) : i \in S}
    IN {vw[1] + vw[2] : vw \in {c \in vals \X vals :
                                    /\ c[1] < c[2]
                                    /\ \A z \in vals : ~(c[1] < z /\ z < c[2])}}

\* left = {i : proj_i <= threshold}
LeftOf(X, S, p, q, t2) == {i \in S : 2 * Proj(X, i, p, q) <= t2}

\* a split is recorded as the next row of the linkage
RecordSplitFirst(links, row) == <<row>> \o links

RecordSplit(links, row) == Append(links, row)

\* fit_predict(X): the root holds every sample, ids of merged clusters start at n
ClusterFitStart(X, max_depth) ==
    /\ cX = <<>>
    /\ cX' = X
    /\ cmax_depth' = max_depth
    /\ cnodes' = <<ClusterNode(Indices(Len(X)), 1, None)>>
    /\ cstack' = <<1>>
    /\ links_' = <<>>
    /\ next_id' = Len(X)
    /\ ret' = Returned("fit_predict", "cluster", 1, [X |-> X, y |-> <<>>], TRUE, "running")
    /\ UNCHANGED <<tree, nodes_list, clf, forest, fitDone, inFit>>

\* the stopping check of the node on top of the stack
ClusterStops(k) ==
    \/ cmax_depth # None /\ cnodes[k].depth = cmax_depth
    \/ Cardinality(cnodes[k].S) < MinSamplesSplit

\* the node on top of the stack becomes a leaf: the stopping check holds or
\* the sampled direction projects all its samples identically
ClusterLeaf ==
    /\ cstack # <<>>
    /\ LET k == Head(cstack)
       IN /\ \/ ClusterStops(k)
             \/ \E p, q \in cnodes[k].S :
                   p # q /\ Thresholds2(cX, cnodes[k].S, p, q) = {}
          /\ cnodes' = [cnodes EXCEPT ![k].state = "leaf"]
          /\ cstack' = Tail(cstack)
    /\ ret' = [ret EXCEPT !.outcome = "running"]
    /\ UNCHANGED <<tree, nodes_list, clf, forest, fitDone, inFit,
                   cX, cmax_depth, links_, next_id>>

\* the node on top of the stack is split along a sampled direction (p, q) at
\* one of the candidate thresholds; the split is recorded and the left child
\* is induced first
ClusterSplit ==
    /\ cstack # <<>>
    /\ LET k == Head(cstack)
           S == cnodes[k].S
           l == Len(cnodes) + 1
           r == Len(cnodes) + 2
       IN /\ ~ClusterStops(k)
          /\ \E p, q \in S : \E t2 \in Thresholds2(cX, S, p, q) :
               LET left == LeftOf(cX, S, p, q, t2)
                   row == [node |-> k, id |-> next_id, a |-> l, b |-> r,
                           distance |-> cnodes[k].depth, size |-> Cardinality(S)]
               IN /\ p # q
                  /\ cnodes' = [cnodes EXCEPT ![k].state = "split", ![k].id = next_id,
                                              ![k].p = p, ![k].q = q,
                                              ![k].split_point2 = t2,
                                              ![k].lhs = l, ![k].rhs = r]
                                 \o <<ClusterNode(left, cnodes[k].depth + 1, k),
                                      ClusterNode(S \ left, cnodes[k].depth + 1, k)>>
                  /\ links_' = RecordSplit(links_, row)
          /\ cstack' = <<l, r>> \o Tail(cstack)
          /\ next_id' = next_id + 1
    /\ ret' = [ret EXCEPT !.outcome = "running"]
    /\ UNCHANGED <<tree, nodes_list, clf, forest, fitDone, inFit, cX, cmax_depth>>

\* every node is settled: fit_predict returns
ClusterFitReturn ==
    /\ cX # <<>>
    /\ cstack = <<>>
    /\ <<"cluster", 1>> \notin fitDone
    /\ fitDone' = fitDone \cup {<<"cluster", 1>>}
    /\ ret' = [ret EXCEPT !.outcome = "labels"]
    /\ UNCHANGED <<tree, nodes_list, clf, forest, inFit, cvars>>

\* the id of the cluster node k stands for in a linkage row: the point itself
\* for a single point, the id its split formed for a split node
ClusterId(k) ==
    IF Cardinality(cnodes[k].S) = 1 THEN CHOOSE i \in cnodes[k].S : TRUE
    ELSE IF cnodes[k].state = "split" THEN cnodes[k].id
    ELSE NoId

\* links_ as rows (id_a, id_b, distance, size)
Linkage ==
    [i \in DOMAIN links_ |->
        <<ClusterId(links_[i].a), ClusterId(links_[i].b),
          links_[i].distance, links_[i].size>>]

(***************************************************************************)
(* The system                                                              *)
(***************************************************************************)
\* no fit in progress and no clustering run
Idle ==
    /\ inFit = {}
    /\ cX = <<>>
    /\ cmax_depth = None
    /\ cnodes = <<>>
    /\ cstack = <<>>
    /\ links_ = <<>>
    /\ next_id = 0

\* every estimator constructed, none fitted; the tree regressors' parameters vary
Init ==
    /\ tree \in [TreeIds -> {SimilarityTreeRegressor(rs, 1, mp[1], mp[2]) :
                               rs \in RandomStates, mp \in TreeParams}]
    /\ nodes_list = <<>>
    /\ clf = [c \in ClfIds |-> SimilarityTreeClassifier]
    /\ forest = [f \in ForestIds |-> SimilarityForestRegressor(1, 20, 1, None, FALSE)]
    /\ fitDone = {}
    /\ ret = Returned("init", "module", None, NoData, TRUE, "None")
    /\ Idle

\* every estimator constructed, none fitted; the forests' parameters vary
InitForest ==
    /\ tree = [t \in TreeIds |-> SimilarityTreeRegressor(1, 1, None, 1)]
    /\ nodes_list = <<>>
    /\ clf = [c \in ClfIds |-> SimilarityTreeClassifier]
    /\ forest \in [ForestIds -> {SimilarityForestRegressor(rs, n, 1, md, oob) :
                                   rs \in RandomStates, n \in NEstimators,
                                   md \in MaxDepths, oob \in BOOLEAN}]
    /\ fitDone = {}
    /\ ret = Returned("init", "module", None, NoData, TRUE, "None")
    /\ Idle

\* the tree estimators: SimilarityTreeRegressor and SimilarityTreeClassifier
Next ==
    \/ \E t \in TreeIds, d \in Datasets, ci \in BOOLEAN : TreeFit(t, d, ci)
    \/ \E t \in TreeIds, X \in Inputs, ci \in BOOLEAN : TreePredict(t, X, ci)
    \/ \E t \in TreeIds : TreeGetDepth(t)
    \/ \E t \in TreeIds : TreeGetNLeaves(t)
    \/ \E c \in ClfIds, d \in Datasets : ClfFit(c, d)
    \/ \E c \in ClfIds, X \in Inputs, ci \in BOOLEAN : ClfPredict(c, X, ci)
    \/ \E c \in ClfIds, X \in Inputs, ci \in BOOLEAN : ClfPredictProba(c, X, ci)
    \/ \E c \in ClfIds : ClfGetDepth(c)

Spec == Init /\ [][Next]_vars

\* the forest estimator: SimilarityForestRegressor
NextForest ==
    \/ \E f \in ForestIds, d \in Datasets, ci \in BOOLEAN : ForestFit(f, d, ci)
    \/ \E f \in ForestIds, X \in Inputs, ci \in BOOLEAN : ForestPredict(f, X, ci)

SpecForest == InitForest /\ [][NextForest]_vars

\* tree regressors fitted by a pool of worker threads
NextWorkers ==
    \/ \E t \in TreeIds, d \in Datasets, ci \in BOOLEAN : WorkerStart(t, d, ci)
    \/ \E t \in TreeIds, ci \in BOOLEAN : WorkerFinish(t, ci)

SpecWorkers == Init /\ [][NextWorkers]_vars

\* the fits of the tree regressors on data sets that include duplicate points
NextInduction ==
    \/ \E t \in TreeIds, d \in Datasets \cup {Duplicates}, ci \in BOOLEAN : WorkerStart(t, d, ci)
    \/ \E t \in TreeIds, ci \in BOOLEAN : WorkerFinish(t, ci)

\* a thread that has entered fit runs on: fit has no loop and waits for nothing
SpecInduction ==
    /\ Init
    /\ [][NextInduction]_vars
    /\ \A t \in TreeIds, ci \in BOOLEAN : WF_vars(WorkerFinish(t, ci))

\* every estimator constructed, no clustering run yet
InitCluster ==
    /\ tree = [t \in TreeIds |-> SimilarityTreeRegressor(1, 1, None, 1)]
    /\ nodes_list = <<>>
    /\ clf = [c \in ClfIds |-> SimilarityTreeClassifier]
    /\ forest = [f \in ForestIds |-> SimilarityForestRegressor(1, 20, 1, None, FALSE)]
    /\ fitDone = {}
    /\ ret = Returned("init", "module", None, NoData, TRUE, "None")
    /\ Idle

\* the clustering variant
NextCluster ==
    \/ \E X \in ClusterInputs, md \in ClusterMaxDepths : ClusterFitStart(X, md)
    \/ ClusterLeaf
    \/ ClusterSplit
    \/ ClusterFitReturn

SpecCluster == InitCluster /\ [][NextCluster]_vars

(***************************************************************************)
(* Properties                                                              *)
(***************************************************************************)
Fitted(t) == <<"treeR", t>> \in fitDone

IsRoot(t) == \A u \in TreeIds : tree[u].lhs # t /\ tree[u].rhs # t

Children(t) == {tree[t].lhs, tree[t].rhs} \ {None}

\* C2: the root of a fitted tree has depth 1, a child is one deeper than its
\* parent, and with max_depth set no node is deeper than max_depth, whatever
\* depth the node was constructed with.
C2_DepthWithinMaxDepth ==
    \A t \in TreeIds : Fitted(t) =>
        /\ IsRoot(t) => tree[t].depth = 1
        /\ \A c \in Children(t) : tree[c].depth = tree[t].depth + 1
        /\ tree[t].max_depth # None => tree[t].depth <= tree[t].max_depth

\* C3: node ids are tree-local: the root of every fitted tree has id 1,
\* whatever other trees were fitted in the process.
C3_TreeLocalIds ==
    \A t \in TreeIds : (Fitted(t) /\ IsRoot(t)) => tree[t].node_id = 1

\* what fit learned at a node: ids, direction, threshold, leaf flag, value, links
Structure(t) ==
    [node_id |-> tree[t].node_id, p |-> tree[t].p, q |-> tree[t].q,
     split_point |-> tree[t].split_point, is_leaf |-> tree[t].is_leaf,
     value |-> tree[t].value, lhs |-> tree[t].lhs, rhs |-> tree[t].rhs]

SameFit(t, u) ==
    /\ tree[t].random_state = tree[u].random_state
    /\ tree[t].n_directions = tree[u].n_directions
    /\ tree[t].max_depth = tree[u].max_depth
    /\ tree[t].depth = tree[u].depth
    /\ tree[t].X_ = tree[u].X_
    /\ tree[t].y_ = tree[u].y_

\* C4: two fits with the same random_state and parameters on identical data
\* give the identical tree structure, node ids included.
C4_FitDeterministic ==
    \A t, u \in TreeIds :
        (Fitted(t) /\ Fitted(u) /\ SameFit(t, u)) => Structure(t) = Structure(u)

Accessors == {"predict", "predict_proba", "get_depth", "get_n_leaves"}

\* C5: predict or an accessor called on an estimator on which no fit has
\* completed raises NotFittedError, for every value of check_input.
C5_UnfittedRaisesNotFitted ==
    (ret.op \in Accessors /\ <<ret.kind, ret.obj>> \notin fitDone)
        => ret.outcome = "NotFittedError"

\* the last step was a fit of a tree estimator on malformed input
MalformedFit(r) ==
    /\ r.op = "fit"
    /\ r.kind \in {"treeR", "clf"}
    /\ ~check_X_y(r.data.X, r.data.y)

\* C6 as stated: fit on malformed input raises a validation error and leaves
\* the estimators and the node registry exactly as they were.
C6_MalformedFitRaises ==
    [][MalformedFit(ret') =>
          /\ ret'.outcome = "ValueError"
          /\ UNCHANGED <<tree, nodes_list, clf, forest, fitDone, inFit, cvars>>]_vars

\* C6 amended: fit on malformed input with validation on (check_input=True
\* for the regressor; the classifier always validates) raises a validation
\* error and leaves the estimators and the node registry exactly as they were;
\* with check_input=False the regressor's fit returns self and stores the input.
C6_ValidatedFitRaises ==
    [][/\ (MalformedFit(ret') /\ ret'.check_input) =>
             /\ ret'.outcome = "ValueError"
             /\ UNCHANGED <<tree, nodes_list, clf, forest, fitDone, inFit, cvars>>
       /\ (MalformedFit(ret') /\ ~ret'.check_input) =>
             /\ ret'.outcome = "self"
             /\ tree'[ret'.obj].X_ = ret'.data.X
             /\ tree'[ret'.obj].y_ = ret'.data.y]_vars

\* a validated fit of an already registered regressor was rejected
C6_Witness ==
    /\ MalformedFit(ret)
    /\ ret.kind = "treeR"
    /\ ret.check_input
    /\ ret.outcome = "ValueError"
    /\ Fitted(ret.obj)
    /\ nodes_list # <<>>

\* C7: the tree classifier's predict on its own training X returns the
\* training labels y.
C7_MemorizesTrainingSet ==
    (/\ ret.op = "predict" /\ ret.kind = "clf" /\ ret.outcome = "array"
     /\ ret.data.X = clf[ret.obj].X_)
        => ret.vec = clf[ret.obj].y_

\* C8: fitted on Scenario A, the tree classifier predicts [0,0,1,1] on X.
C8_ScenarioA ==
    (/\ ret.op = "predict" /\ ret.kind = "clf" /\ ret.outcome = "array"
     /\ clf[ret.obj].X_ = ScenarioA.X /\ clf[ret.obj].y_ = ScenarioA.y
     /\ ret.data.X = ScenarioA.X)
        => ret.vec = <<0, 0, 1, 1>>

RECURSIVE SumSeq(_)
SumSeq(s) == IF s = <<>> THEN 0 ELSE Head(s) + SumSeq(Tail(s))

\* row r of a row-major array with k columns
Row(vec, r, k) == SubSeq(vec, (r - 1) * k + 1, r * k)

\* C9: predict_proba returns one row per sample and one column per class
\* seen in fit, and every row sums to 1.
C9_ProbaIsRowStochasticMatrix ==
    (ret.op = "predict_proba" /\ ret.outcome = "array") =>
        /\ Len(ret.shape) = 2
        /\ ret.shape[1] = Len(ret.data.X)
        /\ ret.shape[2] = Len(clf[ret.obj].classes_)
        /\ \A r \in 1..ret.shape[1] : SumSeq(Row(ret.vec, r, ret.shape[2])) = 1

\* C10: after the forest's fit every one of its n_estimators trees has n
\* training indices drawn from 0..n-1 and an OOB set that is exactly the
\* complement of the indices drawn.
C10_BootstrapAndOob ==
    (ret.op = "fit" /\ ret.kind = "forestR" /\ ret.outcome = "self") =>
        LET self == forest[ret.obj]
            n == Len(ret.data.X)
        IN /\ "estimators_" \in self.attrs
           /\ Len(self.estimators_) = self.n_estimators
           /\ \A e \in Range(self.estimators_) :
                 /\ Len(e.indices) = n
                 /\ Range(e.indices) \subseteq Indices(n)
                 /\ e.oob = Indices(n) \ Range(e.indices)

\* the trees of a forest for which sample i (0-based) is out of bag
OobTrees(self, i) == {e \in DOMAIN self.estimators_ : i \in self.estimators_[e].oob}

RECURSIVE SumOver(_, _)
SumOver(S, f) ==
    IF S = {} THEN 0
    ELSE LET e == CHOOSE x \in S : TRUE IN f[e] + SumOver(S \ {e}, f)

\* C11: after a forest fit with oob_score set, the OOB prediction of every
\* training sample aggregates only the trees that had it out of bag, and is
\* undefined (not a number) for a sample that no tree had out of bag.
C11_OobUsesOnlyOobTrees ==
    (/\ ret.op = "fit" /\ ret.kind = "forestR" /\ ret.outcome = "self"
     /\ forest[ret.obj].oob_score) =>
        LET self == forest[ret.obj]
            n == Len(ret.data.X)
        IN /\ {"oob_score_", "oob_prediction_"} \subseteq self.attrs
           /\ Len(self.oob_prediction_) = n
           /\ \A i \in 1..n :
                LET voters == OobTrees(self, i - 1)
                    preds == [e \in voters |-> self.estimators_[e].prediction[i]]
                IN IF voters = {}
                   THEN self.oob_prediction_[i] = NonFinite
                   ELSE self.oob_prediction_[i] * Cardinality(voters) = SumOver(voters, preds)

\* the per-tree fit tasks executed in ordinal order
OrdinalOrder == SortedSeq(TreeIds)

\* tree t as the fit tasks leave it when they run in the given order
FitInOrder(t, order) ==
    LET pos == CHOOSE k \in DOMAIN order : order[k] = t
    IN TreeFitFinish(TreeFitRegister(TreeFitAssign(tree[t], tree[t].X_, tree[t].y_),
                                     SubSeq(order, 1, pos)))

\* C12: with the seeds fixed, the fitted trees are the same for every order
\* in which the per-tree fit tasks are executed: once every tree has been
\* fitted once, each tree is as the ordinal order would have left it.
C12_OrderIndependent ==
    (Len(nodes_list) = Cardinality(TreeIds) /\ Range(nodes_list) = TreeIds) =>
        \A t \in TreeIds : tree[t] = FitInOrder(t, OrdinalOrder)

\* the orders in which the trees of S can be fitted one after the other
Orders(S) == {o \in [1..Cardinality(S) -> S] : Range(o) = S}

\* C15: fits of distinct trees do not interfere: when every started fit has
\* returned, each tree is as some one-after-the-other execution of the same
\* fits would have left it.
C15_InterleavingIsSequential ==
    (inFit = {} /\ Len(nodes_list) = Cardinality(Range(nodes_list))) =>
        \E order \in Orders(Range(nodes_list)) :
            \A t \in Range(nodes_list) : tree[t] = FitInOrder(t, order)

\* no pair of points of X separates the points of X
NoDirection(X) ==
    \A p, q \in Range(X) : \A x, z \in Range(X) : Projection(x, p, q) = Projection(z, p, q)

\* the stopping conditions of the induction at node t
StopCondition(t) ==
    \/ tree[t].max_depth # None /\ tree[t].depth = tree[t].max_depth
    \/ Len(tree[t].y_) < MinSamplesSplit
    \/ Cardinality(Range(tree[t].y_)) <= 1
    \/ NoDirection(tree[t].X_)

\* a node without children
Leaf(t) == tree[t].lhs = None /\ tree[t].rhs = None

\* C16: a fitted node is a leaf exactly when a stopping condition holds:
\* depth at max_depth, fewer samples than min_samples_split, a constant
\* target, or no direction that separates the samples.
C16_LeafIffStopCondition ==
    \A t \in TreeIds : Fitted(t) => (Leaf(t) <=> StopCondition(t))

\* the leaf that predict reaches for x from node t
RECURSIVE LeafOf(_, _, _)
LeafOf(trees, t, x) ==
    IF trees[t].lhs = None /\ trees[t].rhs = None THEN t
    ELSE IF Projection(x, trees[t].p, trees[t].q) <= trees[t].split_point
         THEN LeafOf(trees, trees[t].lhs, x)
         ELSE LeafOf(trees, trees[t].rhs, x)

\* C17: predict on the training X descends by sim(x,q) - sim(x,p) <= threshold
\* and returns, for every training sample, the value of the leaf it reaches.
C17_PredictFollowsPartition ==
    (/\ ret.op = "predict" /\ ret.kind = "treeR"
     /\ Fitted(ret.obj)
     /\ ret.data.X = tree[ret.obj].X_
     /\ ret.outcome \notin {"NotFittedError", "ValueError"}) =>
        /\ ret.outcome = "array"
        /\ Len(ret.vec) = Len(ret.data.X)
        /\ \A i \in DOMAIN ret.data.X :
             ret.vec[i] = tree[LeafOf(tree, ret.obj, ret.data.X[i])].value

\* C18 as stated: a fitted node holds no reference to its training data.
C18_NoTrainingData ==
    /\ \A t \in TreeIds : Fitted(t) => tree[t].attrs \cap {"X_", "y_"} = {}
    /\ \A c \in ClfIds : <<"clf", c>> \in fitDone => clf[c].attrs \cap {"X_", "y_"} = {}

\* C18 amended: a fitted node holds its learned parameters and child links
\* and also keeps the training data of its last fit as X_ and y_.
C18_KeepsTrainingData ==
    /\ \A t \in TreeIds : Fitted(t) =>
          /\ TreeFitAttrs \cup {"_node_id"} \subseteq tree[t].attrs
          /\ (ret.op = "fit" /\ ret.kind = "treeR" /\ ret.obj = t /\ ret.outcome = "self")
                => (tree[t].X_ = ret.data.X /\ tree[t].y_ = ret.data.y)
    /\ \A c \in ClfIds : <<"clf", c>> \in fitDone =>
          /\ {"X_", "y_"} \subseteq clf[c].attrs
          /\ (ret.op = "fit" /\ ret.kind = "clf" /\ ret.obj = c /\ ret.outcome = "self")
                => (clf[c].X_ = ret.data.X /\ clf[c].y_ = ret.data.y)

\* a validated fit on Scenario A has returned and the node holds the data
C18_Witness ==
    /\ ret.op = "fit" /\ ret.kind = "treeR" /\ ret.outcome = "self"
    /\ ret.check_input
    /\ ret.data = ScenarioA
    /\ tree[ret.obj].X_ = ScenarioA.X
    /\ tree[ret.obj].y_ = ScenarioA.y

\* the leaves of the tree rooted at node t
RECURSIVE LeavesUnder(_, _)
LeavesUnder(trees, t) ==
    IF trees[t].lhs = None /\ trees[t].rhs = None THEN {t}
    ELSE LeavesUnder(trees, trees[t].lhs) \cup LeavesUnder(trees, trees[t].rhs)

\* the largest element of a non-empty set of integers
Max(S) == CHOOSE m \in S : \A k \in S : k <= m

\* C19: get_depth of a fitted tree returns 1 for a single leaf and otherwise
\* 1 + the larger of the two children's get_depth, which is the largest node
\* depth among the leaves when the root has depth 1; the tree classifier,
\* which has no children, is a single leaf.
C19_GetDepthCountsNodes ==
    (ret.op = "get_depth" /\ <<ret.kind, ret.obj>> \in fitDone) =>
        /\ ret.outcome = "int"
        /\ ret.kind = "clf" => ret.vec = <<1>>
        /\ ret.kind = "treeR" =>
             LET t == ret.obj
             IN /\ Leaf(t) => ret.vec = <<1>>
                /\ ~Leaf(t) =>
                     ret.vec = <<1 + Max({get_depth(tree, tree[t].lhs),
                                          get_depth(tree, tree[t].rhs)})>>
                /\ tree[t].depth = 1 =>
                     ret.vec = <<Max({tree[l].depth : l \in LeavesUnder(tree, t)})>>

\* the clustering fit has returned
ClusterFitted == <<"cluster", 1>> \in fitDone

\* C14: after the clustering fit on n points, for every max_depth and every
\* data set, the linkage has exactly n-1 rows and the ids of the clusters
\* formed by successive rows strictly increase.
C14_LinkageHasAllRows ==
    ClusterFitted =>
        /\ Len(links_) = Len(cX) - 1
        /\ \A i, j \in DOMAIN links_ : i < j => links_[i].id < links_[j].id

\* the nodes that were split
SplitNodes == {k \in DOMAIN cnodes : cnodes[k].state = "split"}

\* node d lies inside a child of node k
RECURSIVE Inside(_, _)
Inside(d, k) ==
    /\ cnodes[d].parent # None
    /\ \/ cnodes[d].parent = k
       \/ Inside(cnodes[d].parent, k)

C21_AgglomerativeNumbering ==
    (ClusterFitted /\ links_ # <<>>) =>
        LET n == Len(cX)
            rows == DOMAIN links_
        IN /\ \A i \in rows : links_[i].id = n + (i - 1)
           /\ \A i \in rows : \A side \in {1, 2} :
                 \/ Linkage[i][side] \in Indices(n)
                 \/ \E j \in rows : j < i /\ links_[j].id = Linkage[i][side]
           /\ \A id \in 0..(2 * n - 3) :
                 Cardinality({<<i, side>> \in rows \X {1, 2} : Linkage[i][side] = id}) = 1
           /\ Linkage[Len(links_)][4] = n

\* the position of the last entry of node t in the list
LastEntry(list, t) == Max({k \in DOMAIN list : list[k] = t})

C23_ReturnedFitIsFitted ==
    (ret.op = "fit" /\ ret.kind = "treeR" /\ ret.outcome = "self") =>
        /\ tree[ret.obj].is_fitted_
        /\ tree[ret.obj].is_leaf => tree[ret.obj].is_fitted_

\* C24: once fit has returned normally on an estimator, a later predict with
\* check_input=True on valid X does not raise NotFittedError and returns a
\* vector with one entry per row of X.
C24_PredictAfterFit ==
    (/\ ret.op = "predict" /\ ret.check_input
     /\ <<ret.kind, ret.obj>> \in fitDone
     /\ check_array(ret.data.X)) =>
        /\ ret.outcome # "NotFittedError"
        /\ ret.outcome = "array"
        /\ Len(ret.vec) = Len(ret.data.X)

\* C25: every label the tree classifier's predict returns is one of the
\* class labels seen in fit, a member of classes_.
C25_PredictsSeenLabels ==
    (ret.op = "predict" /\ ret.kind = "clf" /\ ret.outcome = "array") =>
        Range(ret.vec) \subseteq Range(clf[ret.obj].classes_)

\* a fit of node t has started and not yet returned
InFit(t) == \E ci \in BOOLEAN : <<t, ci>> \in inFit

====
